---------------------------- MODULE Spec2Model ----------------------------
(***************************************************************************)
(* A model of hyperplonk/src/hyperplonk.rs: the two orchestrations         *)
(* local_hyperplonk (run_baseline) and local_hyperplonkpp (run_plus).      *)
(*                                                                         *)
(* Each function body is transcribed statement by statement into a         *)
(* sequence of instructions (one per collaborator call or table            *)
(* computation, in source order).  One action per kind of statement        *)
(* executes the instruction at pc.  The collaborators of the crate         *)
(* dist_primitive (random_evaluations, fix_variable, sumcheck_product,     *)
(* acc_product, PolynomialCommitment) are not part of the file; they are   *)
(* modelled by their contracts: the length of what they return, and the    *)
(* possibility that a call panics.                                         *)
(***************************************************************************)
EXTENDS Integers, Sequences, FiniteSets, TLC

VARIABLES
    status,     \* "Idle" | "Running" | "Assembled" | "Aborted"
    variant,    \* "baseline" | "plus": the function being executed
    n,          \* the argument n (log2 of the circuit size)
    pc,         \* index of the next statement of the function body
    rng,        \* state of the randomness: [seed, k], k draws made so far
    tables,     \* the Vec<ScalarField> locals, by name (<<>>: not bound)
    scalars,    \* beta, gamma, g1, g2 (-1: not bound)
    arity,      \* number of variables of the commitment scheme (-1: none)
    coms,       \* the locals com_a .. com_ssigma_c (NoCom: not bound)
    gate_identity_proofs,
    gate_identity_commitments,
    wiring_proofs,
    wiring_commits,
    wiring_opens,
    trace,      \* history: the statements executed by the current invocation
    result,     \* the returned bundle (NoBundle: nothing returned)
    completed   \* history: per variant, the last completed invocation

vars == <<status, variant, n, pc, rng, tables, scalars, arity, coms,
          gate_identity_proofs, gate_identity_commitments, wiring_proofs,
          wiring_commits, wiring_opens, trace, result, completed>>

-----------------------------------------------------------------------------
(* Bounds of the model *)

\* n ranges over 1..MaxN
MaxN == 2
\* entropy seeds range over 0..MaxSeed
MaxSeed == 3
\* the scalar field is GF(FieldPrimes[FieldIdx])
FieldIdx == 4

FieldPrimes == <<2, 3, 5, 7, 11, 13>>
P == FieldPrimes[FieldIdx]

Variants == {"baseline", "plus"}

-----------------------------------------------------------------------------
(* Field arithmetic (ark_ff ScalarField, at a small prime) *)

FAdd(x, y) == (x + y) % P
FNeg(x) == (P - (x % P)) % P
FMul(x, y) == (x * y) % P
FInv(x) == CHOOSE y \in 1..(P - 1) : (x * y) % P = 1
\* the operator / of the field: defined for a non-zero divisor only
FDiv(x, y) == FMul(x, FInv(y))

Pow2(k) == 2 ^ k

-----------------------------------------------------------------------------
(* The collaborators, by contract *)

\* The k-th element drawn from the entropy seed.  The randomness of one
\* invocation is one of MaxSeed + 1 streams: seed 0 is the all-zero stream
\* (every den[i] is 0), the others give tables with varied entries, some with
\* a zero den[i] and some without.
Stream(seed, k) == (seed * (1 + k + 2 * (k \div 3))) % P

\* random_evaluations(count) after k earlier draws
random_evaluations(seed, k, count) ==
    [i \in 1..count |-> Stream(seed, k + i - 1)]

\* fixing the leading variable of a table to r (multilinear interpolation)
FixOne(t, r) ==
    LET half == Len(t) \div 2
    IN  [i \in 1..half |-> FAdd(FMul(FAdd(1, FNeg(r)), t[i]), FMul(r, t[i + half]))]

RECURSIVE fix_variable(_, _)
fix_variable(t, pt) ==
    IF pt = <<>> THEN t ELSE fix_variable(FixOne(t, Head(pt)), Tail(pt))

\* acc_product(h): three tables of half the length of h
acc_product(h) ==
    LET half == Len(h) \div 2
    IN  [vx0 |-> [i \in 1..half |-> h[2 * i - 1]],
         vx1 |-> [i \in 1..half |-> h[2 * i]],
         v1x |-> [i \in 1..half |-> FMul(h[2 * i - 1], h[2 * i])]]

\* the opaque artifacts the collaborators return
sumcheck_product(p, q, ch) == [p |-> p, q |-> q, ch |-> ch]
commit(t) == [com |-> t]
open(t, ch) == [open |-> t, at |-> ch]

NoCom == [com |-> "none"]
NoBundle == [returned |-> FALSE]

-----------------------------------------------------------------------------
(* The statements of the two function bodies *)

I(op, dst, a1, a2, ch, pt, cnt, args, line) ==
    [op |-> op, dst |-> dst, a1 |-> a1, a2 |-> a2, ch |-> ch, pt |-> pt,
     cnt |-> cnt, args |-> args, line |-> line]

Sample(dst, cnt, line) == I("sample", dst, "", "", "", <<>>, cnt, <<>>, line)
Rand(dst, line) == I("rand", dst, "", "", "", <<>>, "", <<>>, line)
\* mutant: the two fixed coordinates are given in the other order
Fix_reversed(dst, src, pt, line) == I("fix", dst, src, "", "", <<pt[2], pt[1]>>, "", <<>>, line)
Fix(dst, src, pt, line) == I("fix", dst, src, "", "", pt, "", <<>>, line)
NewToy(src, line) == I("new_toy", "commitment", src, "", "", <<>>, "", <<>>, line)
Commit(dst, src, line) == I("commit", dst, src, "", "", <<>>, "", <<>>, line)
Sumcheck(dst, p, q, ch, line) == I("sumcheck", dst, p, q, ch, <<>>, "", <<>>, line)
ZipAdd(dst, x, y, line) == I("zip_add", dst, x, y, "", <<>>, "", <<>>, line)
ZipNegAdd(dst, x, y, line) == I("zip_neg_add", dst, x, y, "", <<>>, "", <<>>, line)
Prod3(dst, wires, labels, line) == I("prod3", dst, "", "", "", <<>>, "", wires \o labels, line)
ZipDiv(dst, x, y, line) == I("zip_div", dst, x, y, "", <<>>, "", <<>>, line)
\* mutant: the accumulator is run on num
Acc_on_num(src, line) == I("acc", "", "num", "", "", <<>>, "", <<>>, line)
Acc(src, line) == I("acc", "", src, "", "", <<>>, "", <<>>, line)
Open(dst, src, ch, line) == I("open", dst, src, "", ch, <<>>, "", <<>>, line)
OpenPair(dst, com, src, ch, line) == I("open_pair", dst, src, com, ch, <<>>, "", <<>>, line)
Return(line) == I("return", "", "", "", "", <<>>, "", <<>>, line)

\* local_hyperplonk, lines 20-49
Baseline_Setup ==
    << Sample("m", "gate_count*4", 22),
       Fix("a_evals", "m", <<0, 0>>, 23),
       Fix("b_evals", "m", <<0, 1>>, 24),
       Fix("c_evals", "m", <<1, 0>>, 25),
       Sample("input", "gate_count", 27),
       Sample("q1", "gate_count", 29),
       Sample("q2", "gate_count", 30),
       Sample("ssigma", "gate_count*4", 32),
       Fix("ssigma_a_evals", "ssigma", <<0, 0>>, 33),
       Fix("ssigma_b_evals", "ssigma", <<0, 1>>, 34),
       Fix("ssigma_c_evals", "ssigma", <<1, 0>>, 35),
       Sample("sid", "gate_count", 36),
       Sample("eq", "gate_count", 39),
       Rand("g1", 41),
       Rand("g2", 42),
       Sample("s", "n", 43),
       NewToy("s", 44),
       Sample("challenge", "n", 46),
       Rand("beta", 48),
       Rand("gamma", 49) >>

\* local_hyperplonk, lines 54-67
Baseline_Commit ==
    << Commit("com_a", "a_evals", 56),
       Commit("com_b", "b_evals", 57),
       Commit("com_c", "c_evals", 58),
       Commit("com_in", "input", 59),
       Commit("com_q1", "q1", 61),
       Commit("com_q2", "q2", 62),
       Commit("com_ssigma_a", "ssigma_a_evals", 64),
       Commit("com_ssigma_b", "ssigma_b_evals", 65),
       Commit("com_ssigma_c", "ssigma_c_evals", 66) >>

\* local_hyperplonk, lines 73-97
Baseline_Gate ==
    << Sumcheck("gate_identity_proofs", "eq", "q1", "challenge", 79),
       ZipAdd("sum_ab", "a_evals", "b_evals", 80),
       Sumcheck("gate_identity_proofs", "q1", "sum_ab", "challenge", 85),
       Sumcheck("gate_identity_proofs", "eq", "q2", "challenge", 87),
       Sumcheck("gate_identity_proofs", "a_evals", "b_evals", "challenge", 88),
       Sumcheck("gate_identity_proofs", "q2", "a_evals", "challenge", 89),
       ZipNegAdd("sum_ci", "c_evals", "input", 91),
       Sumcheck("gate_identity_proofs", "eq", "sum_ci", "challenge", 96) >>

\* local_hyperplonk, lines 100-144
Baseline_Wire ==
    << Prod3("num", <<"a_evals", "b_evals", "c_evals">>,
             <<"ssigma_a_evals", "ssigma_b_evals", "ssigma_c_evals">>, 106),
       Prod3("den", <<"a_evals", "b_evals", "c_evals">>,
             <<"sid", "sid", "sid">>, 113),
       ZipDiv("h", "num", "den", 120),
       Acc("h", 122),
       Commit("wiring_commits", "h", 125),
       Open("wiring_opens", "h", "challenge", 126),
       Commit("wiring_commits", "num", 127),
       Open("wiring_opens", "num", "challenge", 128),
       Commit("wiring_commits", "den", 129),
       Open("wiring_opens", "den", "challenge", 130),
       Commit("wiring_commits", "vx0", 131),
       Open("wiring_opens", "vx0", "challenge", 132),
       Commit("wiring_commits", "vx1", 133),
       Open("wiring_opens", "vx1", "challenge", 134),
       Commit("wiring_commits", "v1x", 135),
       Open("wiring_opens", "v1x", "challenge", 136),
       Sumcheck("wiring_proofs", "eq", "v1x", "challenge", 138),
       Sumcheck("wiring_proofs", "eq", "vx0", "challenge", 139),
       Sumcheck("wiring_proofs", "vx0", "vx1", "challenge", 140),
       Sumcheck("wiring_proofs", "eq", "den", "challenge", 141),
       Sumcheck("wiring_proofs", "eq", "num", "challenge", 142),
       Sumcheck("wiring_proofs", "h", "num", "challenge", 143) >>

\* local_hyperplonk, lines 147-165
Baseline_Open ==
    << OpenPair("gate_identity_commitments", "com_a", "a_evals", "challenge", 148),
       OpenPair("gate_identity_commitments", "com_b", "b_evals", "challenge", 149),
       OpenPair("gate_identity_commitments", "com_c", "c_evals", "challenge", 150),
       OpenPair("gate_identity_commitments", "com_in", "input", "challenge", 151),
       OpenPair("gate_identity_commitments", "com_q1", "q1", "challenge", 152),
       OpenPair("gate_identity_commitments", "com_q2", "q2", "challenge", 153),
       OpenPair("gate_identity_commitments", "com_ssigma_a", "ssigma_a_evals", "challenge", 154),
       OpenPair("gate_identity_commitments", "com_ssigma_b", "ssigma_b_evals", "challenge", 155),
       OpenPair("gate_identity_commitments", "com_ssigma_c", "ssigma_c_evals", "challenge", 156),
       Return(162) >>

\* mutant: the nine openings of the Open phase are made before the wiring argument
local_hyperplonk_open_early ==
    Baseline_Setup \o Baseline_Commit \o Baseline_Gate
        \o SubSeq(Baseline_Open, 1, 9) \o Baseline_Wire \o <<Return(162)>>

\* mutant: the last wiring sum-check (h, num) is forgotten
local_hyperplonk_short ==
    Baseline_Setup \o Baseline_Commit \o Baseline_Gate
        \o SubSeq(Baseline_Wire, 1, Len(Baseline_Wire) - 1) \o Baseline_Open

local_hyperplonk ==
    Baseline_Setup \o Baseline_Commit \o Baseline_Gate \o Baseline_Wire \o Baseline_Open

\* local_hyperplonkpp, lines 173-204
Plus_Setup ==
    << Sample("m", "gate_count*4", 175),
       Fix("a_evals", "m", <<0, 0>>, 176),
       Fix("b_evals", "m", <<0, 1>>, 177),
       Fix("c_evals", "m", <<1, 0>>, 178),
       Sample("input", "gate_count", 180),
       Sample("q1", "gate_count", 182),
       Sample("q2", "gate_count", 183),
       Sample("ssigma", "gate_count*4", 185),
       Fix("ssigma_a_evals", "ssigma", <<0, 0>>, 186),
       Fix("ssigma_b_evals", "ssigma", <<0, 1>>, 187),
       Fix("ssigma_c_evals", "ssigma", <<1, 0>>, 188),
       Sample("sid", "gate_count", 189),
       Sample("eq", "gate_count", 192),
       Rand("g1", 194),
       Rand("g2", 195),
       Sample("s", "n", 196),
       NewToy("s", 197),
       Sample("challenge", "n", 199),
       Sample("challengep2", "n+2", 200),
       Sample("challengep2_2", "n+2", 201),
       Rand("beta", 203),
       Rand("gamma", 204) >>

\* local_hyperplonkpp, lines 209-222
Plus_Commit ==
    << Commit("com_a", "a_evals", 211),
       Commit("com_b", "b_evals", 212),
       Commit("com_c", "c_evals", 213),
       Commit("com_in", "input", 214),
       Commit("com_q1", "q1", 216),
       Commit("com_q2", "q2", 217),
       Commit("com_ssigma_a", "ssigma_a_evals", 219),
       Commit("com_ssigma_b", "ssigma_b_evals", 220),
       Commit("com_ssigma_c", "ssigma_c_evals", 221) >>

\* mutant: the sum-checks (a, b) and (q2, a) change places
Plus_Gate_swapped ==
    << Sumcheck("gate_identity_proofs", "eq", "q1", "challenge", 234),
       ZipAdd("sum_ab", "a_evals", "b_evals", 235),
       Sumcheck("gate_identity_proofs", "q1", "sum_ab", "challenge", 240),
       Sumcheck("gate_identity_proofs", "eq", "q2", "challenge", 242),
       Sumcheck("gate_identity_proofs", "q2", "a_evals", "challenge", 244),
       Sumcheck("gate_identity_proofs", "a_evals", "b_evals", "challenge", 243),
       ZipNegAdd("sum_ci", "c_evals", "input", 246),
       Sumcheck("gate_identity_proofs", "eq", "sum_ci", "challenge", 251) >>

\* local_hyperplonkpp, lines 228-252
Plus_Gate ==
    << Sumcheck("gate_identity_proofs", "eq", "q1", "challenge", 234),
       ZipAdd("sum_ab", "a_evals", "b_evals", 235),
       Sumcheck("gate_identity_proofs", "q1", "sum_ab", "challenge", 240),
       Sumcheck("gate_identity_proofs", "eq", "q2", "challenge", 242),
       Sumcheck("gate_identity_proofs", "a_evals", "b_evals", "challenge", 243),
       Sumcheck("gate_identity_proofs", "q2", "a_evals", "challenge", 244),
       ZipNegAdd("sum_ci", "c_evals", "input", 246),
       Sumcheck("gate_identity_proofs", "eq", "sum_ci", "challenge", 251) >>

\* mutant: M is opened twice at the same challenge
Plus_Wire_same_point ==
    << Sample("s", "gate_count*4", 259),
       Commit("wiring_commits", "s", 260),
       Sumcheck("wiring_proofs", "m", "s", "challengep2", 261),
       Open("wiring_opens", "s", "challengep2", 262),
       Open("wiring_opens", "m", "challengep2", 263),
       Open("wiring_opens", "m", "challengep2", 264) >>
        \o SubSeq(Baseline_Wire, 1, Len(Baseline_Wire))

\* local_hyperplonkpp, lines 255-305
Plus_Wire ==
    << Sample("s", "gate_count*4", 259),
       Commit("wiring_commits", "s", 260),
       Sumcheck("wiring_proofs", "m", "s", "challengep2", 261),
       Open("wiring_opens", "s", "challengep2", 262),
       Open("wiring_opens", "m", "challengep2", 263),
       Open("wiring_opens", "m", "challengep2_2", 264),
       Prod3("num", <<"a_evals", "b_evals", "c_evals">>,
             <<"ssigma_a_evals", "ssigma_b_evals", "ssigma_c_evals">>, 267),
       Prod3("den", <<"a_evals", "b_evals", "c_evals">>,
             <<"sid", "sid", "sid">>, 274),
       ZipDiv("h", "num", "den", 281),
       Acc("h", 283),
       Commit("wiring_commits", "h", 286),
       Open("wiring_opens", "h", "challenge", 287),
       Commit("wiring_commits", "num", 288),
       Open("wiring_opens", "num", "challenge", 289),
       Commit("wiring_commits", "den", 290),
       Open("wiring_opens", "den", "challenge", 291),
       Commit("wiring_commits", "vx0", 292),
       Open("wiring_opens", "vx0", "challenge", 293),
       Commit("wiring_commits", "vx1", 294),
       Open("wiring_opens", "vx1", "challenge", 295),
       Commit("wiring_commits", "v1x", 296),
       Open("wiring_opens", "v1x", "challenge", 297),
       Sumcheck("wiring_proofs", "eq", "v1x", "challenge", 299),
       Sumcheck("wiring_proofs", "eq", "vx0", "challenge", 300),
       Sumcheck("wiring_proofs", "vx0", "vx1", "challenge", 301),
       Sumcheck("wiring_proofs", "eq", "den", "challenge", 302),
       Sumcheck("wiring_proofs", "eq", "num", "challenge", 303),
       Sumcheck("wiring_proofs", "h", "num", "challenge", 304) >>

\* mutant: q1 is opened in the place of q2
Plus_Open_copy_paste ==
    << OpenPair("gate_identity_commitments", "com_a", "a_evals", "challenge", 309),
       OpenPair("gate_identity_commitments", "com_b", "b_evals", "challenge", 310),
       OpenPair("gate_identity_commitments", "com_c", "c_evals", "challenge", 311),
       OpenPair("gate_identity_commitments", "com_in", "input", "challenge", 312),
       OpenPair("gate_identity_commitments", "com_q1", "q1", "challenge", 313),
       OpenPair("gate_identity_commitments", "com_q2", "q1", "challenge", 314),
       OpenPair("gate_identity_commitments", "com_ssigma_a", "ssigma_a_evals", "challenge", 315),
       OpenPair("gate_identity_commitments", "com_ssigma_b", "ssigma_b_evals", "challenge", 316),
       OpenPair("gate_identity_commitments", "com_ssigma_c", "ssigma_c_evals", "challenge", 317),
       Return(323) >>

\* local_hyperplonkpp, lines 308-326
Plus_Open ==
    << OpenPair("gate_identity_commitments", "com_a", "a_evals", "challenge", 309),
       OpenPair("gate_identity_commitments", "com_b", "b_evals", "challenge", 310),
       OpenPair("gate_identity_commitments", "com_c", "c_evals", "challenge", 311),
       OpenPair("gate_identity_commitments", "com_in", "input", "challenge", 312),
       OpenPair("gate_identity_commitments", "com_q1", "q1", "challenge", 313),
       OpenPair("gate_identity_commitments", "com_q2", "q2", "challenge", 314),
       OpenPair("gate_identity_commitments", "com_ssigma_a", "ssigma_a_evals", "challenge", 315),
       OpenPair("gate_identity_commitments", "com_ssigma_b", "ssigma_b_evals", "challenge", 316),
       OpenPair("gate_identity_commitments", "com_ssigma_c", "ssigma_c_evals", "challenge", 317),
       Return(323) >>

\* mutant: the gate-identity argument is run before the nine commits
local_hyperplonkpp_gate_first ==
    Plus_Setup \o Plus_Gate \o Plus_Commit \o Plus_Wire \o Plus_Open

\* mutant: the witness table is committed as well, before it is opened
local_hyperplonkpp_commit_m ==
    Plus_Setup \o Plus_Commit \o Plus_Gate
        \o SubSeq(Plus_Wire, 1, 4) \o <<Commit("wiring_commits", "m", 263)>>
        \o SubSeq(Plus_Wire, 5, Len(Plus_Wire)) \o Plus_Open

local_hyperplonkpp ==
    Plus_Setup \o Plus_Commit \o Plus_Gate \o Plus_Wire \o Plus_Open

Body(v) == IF v = "baseline" THEN local_hyperplonk ELSE local_hyperplonkpp

-----------------------------------------------------------------------------
(* State of one invocation *)

TableNames ==
    {"m", "a_evals", "b_evals", "c_evals", "input", "q1", "q2", "ssigma",
     "ssigma_a_evals", "ssigma_b_evals", "ssigma_c_evals", "sid", "eq", "s",
     "challenge", "challengep2", "challengep2_2", "sum_ab", "sum_ci",
     "num", "den", "h", "vx0", "vx1", "v1x"}
ScalarNames == {"g1", "g2", "beta", "gamma"}
ComNames ==
    {"com_a", "com_b", "com_c", "com_in", "com_q1", "com_q2",
     "com_ssigma_a", "com_ssigma_b", "com_ssigma_c"}

NoTables == [t \in TableNames |-> <<>>]
NoScalars == [x \in ScalarNames |-> -1]
NoComs == [c \in ComNames |-> NoCom]
NoRun == [n |-> 0, trace |-> <<>>, bundle |-> NoBundle]

\* let gate_count = 1 << n (lines 20, 173)
gate_count == Pow2(n)

\* mutant: the witness-sized tables get 2 * gate_count elements
Count_twice(cnt) ==
    CASE cnt = "gate_count*4" -> gate_count * 2
      [] cnt = "gate_count" -> gate_count
      [] cnt = "n" -> n
      [] cnt = "n+2" -> n + 2

Count(cnt) ==
    CASE cnt = "gate_count*4" -> gate_count * 4
      [] cnt = "gate_count" -> gate_count
      [] cnt = "n" -> n
      [] cnt = "n+2" -> n + 2

Ins == Body(variant)[pc]

Min(x, y) == IF x < y THEN x ELSE y

\* one executed statement, as the history keeps it
Event(ins, lens, chlen, out, ok) ==
    [op |-> ins.op, dst |-> ins.dst, a1 |-> ins.a1, a2 |-> ins.a2,
     ch |-> ins.ch, pt |-> ins.pt, cnt |-> ins.cnt, args |-> ins.args, lens |-> lens,
     chlen |-> chlen, out |-> out, ok |-> ok]

OperandLens(ins) ==
    CASE ins.op \in {"fix", "commit", "acc", "open", "open_pair", "new_toy"} ->
            <<Len(tables[ins.a1])>>
      [] ins.op \in {"sumcheck", "zip_add", "zip_neg_add", "zip_div"} ->
            <<Len(tables[ins.a1]), Len(tables[ins.a2])>>
      [] ins.op = "prod3" -> [j \in 1..Len(ins.args) |-> Len(tables[ins.args[j]])]
      [] OTHER -> <<>>

ChLen(ins) == IF ins.ch = "" THEN 0 ELSE Len(tables[ins.ch])

Log(out) == trace' = Append(trace, Event(Ins, OperandLens(Ins), ChLen(Ins), out, TRUE))

Push(lst, val) == IF Ins.dst = lst THEN val ELSE <<>>

Running(op) == status = "Running" /\ Ins.op = op

\* the statement is done: control moves to the next one
Advance == pc' = pc + 1 /\ UNCHANGED <<status, variant, n, result, completed>>

\* a panic unwinds the function: every local is dropped, nothing is returned
Unwind ==
    /\ status' = "Aborted"
    /\ tables' = NoTables
    /\ scalars' = NoScalars
    /\ arity' = -1
    /\ coms' = NoComs
    /\ gate_identity_proofs' = <<>>
    /\ gate_identity_commitments' = <<>>
    /\ wiring_proofs' = <<>>
    /\ wiring_commits' = <<>>
    /\ wiring_opens' = <<>>
    /\ UNCHANGED <<variant, n, pc, rng, result, completed>>

Lists ==
    <<gate_identity_proofs, gate_identity_commitments, wiring_proofs,
      wiring_commits, wiring_opens>>

-----------------------------------------------------------------------------
(* Actions *)

Init ==
    /\ status = "Idle"
    /\ variant = "baseline"
    /\ n = 1
    /\ pc = 1
    /\ rng = [seed |-> 0, k |-> 0]
    /\ tables = NoTables
    /\ scalars = NoScalars
    /\ arity = -1
    /\ coms = NoComs
    /\ gate_identity_proofs = <<>>
    /\ gate_identity_commitments = <<>>
    /\ wiring_proofs = <<>>
    /\ wiring_commits = <<>>
    /\ wiring_opens = <<>>
    /\ trace = <<>>
    /\ result = NoBundle
    /\ completed = [v \in Variants |-> NoRun]

\* a caller invokes local_hyperplonk::<E>(n) or local_hyperplonkpp::<E>(n);
\* the function seeds its randomness from entropy (lines 19, 172)
Call(v, nn, seed) ==
    /\ status \in {"Idle", "Assembled"}
    /\ status' = "Running"
    /\ variant' = v
    /\ n' = nn
    /\ pc' = 1
    /\ rng' = [seed |-> seed, k |-> 0]
    /\ trace' = <<>>
    /\ result' = NoBundle
    /\ UNCHANGED <<tables, scalars, arity, coms, completed>>
    /\ UNCHANGED Lists

\* let x = random_evaluations(count)
DoSample ==
    /\ Running("sample")
    /\ tables' = [tables EXCEPT ![Ins.dst] = random_evaluations(rng.seed, rng.k, Count(Ins.cnt))]
    /\ rng' = [rng EXCEPT !.k = @ + Count(Ins.cnt)]
    /\ Log(Count(Ins.cnt))
    /\ Advance
    /\ UNCHANGED <<scalars, arity, coms>>
    /\ UNCHANGED Lists

\* let x = E::ScalarField::rand(rng) (and E::G1::rand, E::G2::rand)
DoRand ==
    /\ Running("rand")
    /\ scalars' = [scalars EXCEPT ![Ins.dst] = Stream(rng.seed, rng.k)]
    /\ rng' = [rng EXCEPT !.k = @ + 1]
    /\ Log(1)
    /\ Advance
    /\ UNCHANGED <<tables, arity, coms>>
    /\ UNCHANGED Lists

\* let x = fix_variable(&t, &vec![..])
DoFix ==
    /\ Running("fix")
    /\ tables' = [tables EXCEPT ![Ins.dst] = fix_variable(tables[Ins.a1], Ins.pt)]
    /\ Log(Len(tables'[Ins.dst]))
    /\ Advance
    /\ UNCHANGED <<rng, scalars, arity, coms>>
    /\ UNCHANGED Lists

\* let commitment = PolynomialCommitmentCub::new_toy(g1, g2, s).mature();
\* the vector s is moved into the scheme
DoNewToy ==
    /\ Running("new_toy")
    /\ arity' = Len(tables[Ins.a1])
    /\ tables' = [tables EXCEPT ![Ins.a1] = <<>>]
    /\ Log(0)
    /\ Advance
    /\ UNCHANGED <<rng, scalars, coms>>
    /\ UNCHANGED Lists

\* let com_x = commitment.commit(&t)  or  wiring_commits.push(commitment.commit(&t))
DoCommit ==
    /\ Running("commit")
    /\ coms' = IF Ins.dst \in ComNames THEN [coms EXCEPT ![Ins.dst] = commit(Ins.a1)] ELSE coms
    /\ wiring_commits' = wiring_commits \o Push("wiring_commits", <<commit(Ins.a1)>>)
    /\ Log(1)
    /\ Advance
    /\ UNCHANGED <<rng, tables, scalars, arity, gate_identity_proofs,
                   gate_identity_commitments, wiring_proofs, wiring_opens>>

\* proofs.push(sumcheck_product(&p, &q, &challenge))
DoSumcheck ==
    /\ Running("sumcheck")
    /\ gate_identity_proofs' = gate_identity_proofs
            \o Push("gate_identity_proofs", <<sumcheck_product(Ins.a1, Ins.a2, Ins.ch)>>)
    /\ wiring_proofs' = wiring_proofs
            \o Push("wiring_proofs", <<sumcheck_product(Ins.a1, Ins.a2, Ins.ch)>>)
    /\ Log(1)
    /\ Advance
    /\ UNCHANGED <<rng, tables, scalars, arity, coms, gate_identity_commitments,
                   wiring_commits, wiring_opens>>

\* x.iter().zip(y.iter()).map(|(a, b)| *a + *b).collect()
ZipAddTable(x, y) == [i \in 1..Min(Len(x), Len(y)) |-> FAdd(x[i], y[i])]

\* mutant: the operands of the subtraction change places
ZipNegAddTable_swapped(x, y) == [i \in 1..Min(Len(x), Len(y)) |-> FAdd(x[i], FNeg(y[i]))]

\* x.iter().zip(y.iter()).map(|(a, b)| -*a + *b).collect()
ZipNegAddTable(x, y) == [i \in 1..Min(Len(x), Len(y)) |-> FAdd(FNeg(x[i]), y[i])]

\* mutant: gamma is left out of the third factor
Prod3Table_no_gamma(w, beta, gamma) ==
    LET term(j, i) == FAdd(FAdd(tables[w[j]][i], FMul(beta, tables[w[j + 3]][i])), gamma)
        last(i) == FAdd(tables[w[3]][i], FMul(beta, tables[w[6]][i]))
    IN  [i \in 1..gate_count |-> FMul(FMul(term(1, i), term(2, i)), last(i))]

\* (0..gate_count).map(|i| (w1[i] + beta * l1[i] + gamma) * (w2[i] + ..) * (w3[i] + ..))
Prod3Table(w, beta, gamma) ==
    LET term(j, i) == FAdd(FAdd(tables[w[j]][i], FMul(beta, tables[w[j + 3]][i])), gamma)
    IN  [i \in 1..gate_count |-> FMul(FMul(term(1, i), term(2, i)), term(3, i))]

\* x.iter().zip(y.iter()).map(|(a, b)| *a / *b).collect()
ZipDivTable(x, y) == [i \in 1..Min(Len(x), Len(y)) |-> FDiv(x[i], y[i])]

DoZipAdd ==
    /\ Running("zip_add")
    /\ tables' = [tables EXCEPT ![Ins.dst] = ZipAddTable(tables[Ins.a1], tables[Ins.a2])]
    /\ Log(Len(tables'[Ins.dst]))
    /\ Advance
    /\ UNCHANGED <<rng, scalars, arity, coms>>
    /\ UNCHANGED Lists

DoZipNegAdd ==
    /\ Running("zip_neg_add")
    /\ tables' = [tables EXCEPT ![Ins.dst] = ZipNegAddTable(tables[Ins.a1], tables[Ins.a2])]
    /\ Log(Len(tables'[Ins.dst]))
    /\ Advance
    /\ UNCHANGED <<rng, scalars, arity, coms>>
    /\ UNCHANGED Lists

DoProd3 ==
    /\ Running("prod3")
    /\ tables' = [tables EXCEPT ![Ins.dst] = Prod3Table(Ins.args, scalars["beta"], scalars["gamma"])]
    /\ Log(Len(tables'[Ins.dst]))
    /\ Advance
    /\ UNCHANGED <<rng, scalars, arity, coms>>
    /\ UNCHANGED Lists

ZeroDivisor(x, y) == \E i \in 1..Min(Len(x), Len(y)) : y[i] = 0

DoZipDiv ==
    /\ Running("zip_div")
    /\ ~ZeroDivisor(tables[Ins.a1], tables[Ins.a2])
    /\ tables' = [tables EXCEPT ![Ins.dst] = ZipDivTable(tables[Ins.a1], tables[Ins.a2])]
    /\ Log(Len(tables'[Ins.dst]))
    /\ Advance
    /\ UNCHANGED <<rng, scalars, arity, coms>>
    /\ UNCHANGED Lists

\* mutant: a zero divisor is reported and the run goes on with h = 0
DivisionByZero_swallowed ==
    /\ Running("zip_div")
    /\ ZeroDivisor(tables[Ins.a1], tables[Ins.a2])
    /\ trace' = Append(trace, Event(Ins, OperandLens(Ins), 0, 0, FALSE))
    /\ tables' = [tables EXCEPT ![Ins.dst] = [i \in 1..gate_count |-> 0]]
    /\ Advance
    /\ UNCHANGED <<rng, scalars, arity, coms>>
    /\ UNCHANGED Lists

\* the division of the field panics on a zero divisor
DivisionByZero ==
    /\ Running("zip_div")
    /\ ZeroDivisor(tables[Ins.a1], tables[Ins.a2])
    /\ trace' = Append(trace, Event(Ins, OperandLens(Ins), 0, 0, FALSE))
    /\ Unwind

\* let (vx0, vx1, v1x) = acc_product(&h)
DoAcc ==
    /\ Running("acc")
    /\ LET r == acc_product(tables[Ins.a1])
       IN  tables' = [tables EXCEPT !["vx0"] = r.vx0, !["vx1"] = r.vx1, !["v1x"] = r.v1x]
    /\ Log(Len(tables'["vx0"]))
    /\ Advance
    /\ UNCHANGED <<rng, scalars, arity, coms>>
    /\ UNCHANGED Lists

\* mutant: the opening is put at the front of the list
DoOpen_front ==
    /\ Running("open")
    /\ wiring_opens' = Push("wiring_opens", <<open(Ins.a1, Ins.ch)>>) \o wiring_opens
    /\ Log(1)
    /\ Advance
    /\ UNCHANGED <<rng, tables, scalars, arity, coms, gate_identity_proofs,
                   gate_identity_commitments, wiring_proofs, wiring_commits>>

\* wiring_opens.push(commitment.open(&t, &challenge))
DoOpen ==
    /\ Running("open")
    /\ wiring_opens' = wiring_opens \o Push("wiring_opens", <<open(Ins.a1, Ins.ch)>>)
    /\ Log(1)
    /\ Advance
    /\ UNCHANGED <<rng, tables, scalars, arity, coms, gate_identity_proofs,
                   gate_identity_commitments, wiring_proofs, wiring_commits>>

\* gate_identity_commitments.push((com_x, commitment.open(&t, &challenge)))
DoOpenPair ==
    /\ Running("open_pair")
    /\ gate_identity_commitments' = gate_identity_commitments
            \o Push("gate_identity_commitments", << <<coms[Ins.a2], open(Ins.a1, Ins.ch)>> >>)
    /\ Log(1)
    /\ Advance
    /\ UNCHANGED <<rng, tables, scalars, arity, coms, gate_identity_proofs,
                   wiring_proofs, wiring_commits, wiring_opens>>

\* ((gate_identity_proofs, gate_identity_commitments),
\*  (wiring_proofs, wiring_commits, wiring_opens))
Bundle ==
    [returned |-> TRUE,
     gate_identity_proofs |-> gate_identity_proofs,
     gate_identity_commitments |-> gate_identity_commitments,
     wiring_proofs |-> wiring_proofs,
     wiring_commits |-> wiring_commits,
     wiring_opens |-> wiring_opens]

\* the tuple is moved to the caller, the other locals are dropped
DoReturn ==
    /\ Running("return")
    /\ result' = Bundle
    /\ completed' = [completed EXCEPT ![variant] = [n |-> n, trace |-> trace, bundle |-> Bundle]]
    /\ status' = "Assembled"
    /\ tables' = NoTables
    /\ scalars' = NoScalars
    /\ arity' = -1
    /\ coms' = NoComs
    /\ gate_identity_proofs' = <<>>
    /\ gate_identity_commitments' = <<>>
    /\ wiring_proofs' = <<>>
    /\ wiring_commits' = <<>>
    /\ wiring_opens' = <<>>
    /\ UNCHANGED <<variant, n, pc, rng, trace>>

\* The calls into dist_primitive.  They return plain values, so a call that
\* fails panics.  Any call may fail (an internal fault, or a precondition that
\* does not hold); the lengths of the operands and of the challenge of every
\* call are kept in the history.
CollaboratorOps == {"sample", "fix", "new_toy", "commit", "sumcheck", "acc", "open", "open_pair"}

CollaboratorPanic ==
    /\ status = "Running"
    /\ Ins.op \in CollaboratorOps
    /\ trace' = Append(trace, Event(Ins, OperandLens(Ins), ChLen(Ins), 0, FALSE))
    /\ Unwind

Next ==
    \/ \E v \in Variants, nn \in 1..MaxN, seed \in 0..MaxSeed : Call(v, nn, seed)
    \/ DoSample
    \/ DoRand
    \/ DoFix
    \/ DoNewToy
    \/ DoCommit
    \/ DoSumcheck
    \/ DoZipAdd
    \/ DoZipNegAdd
    \/ DoProd3
    \/ DoZipDiv
    \/ DivisionByZero
    \/ DoAcc
    \/ DoOpen
    \/ DoOpenPair
    \/ DoReturn
    \/ CollaboratorPanic

Spec == Init /\ [][Next]_vars

-----------------------------------------------------------------------------
(* Reading the history *)

\* the events of tr that satisfy Test, in order
Select(tr, Test(_)) == SelectSeq(tr, Test)

IsCommit(e) == e.op = "commit"
IsSumcheck(e) == e.op = "sumcheck"
IsOpenEvent(e) == e.op \in {"open", "open_pair"}

Names(tr) == [i \in DOMAIN tr |-> tr[i].a1]
Pairs(tr) == [i \in DOMAIN tr |-> <<tr[i].a1, tr[i].a2>>]

CommitsOf(tr) == Names(Select(tr, IsCommit))

Assembled(v) == status = "Assembled" /\ variant = v

UpFront ==
    <<"a_evals", "b_evals", "c_evals", "input", "q1", "q2",
      "ssigma_a_evals", "ssigma_b_evals", "ssigma_c_evals">>
WiringSix == <<"h", "num", "den", "vx0", "vx1", "v1x">>

Range(f) == {f[i] : i \in DOMAIN f}

-----------------------------------------------------------------------------
(* C1: a completed local_hyperplonk(n) returns a gate-identity proof list of
   length 6, a gate-identity commitment/opening list of length 9, a wiring
   proof list of length 6, a wiring commitment list of length 6 and a wiring
   opening list of length 6, for every n and every sampled content. *)
C1_BaselineCardinalities ==
    Assembled("baseline") =>
        /\ result.returned
        /\ Len(result.gate_identity_proofs) = 6
        /\ Len(result.gate_identity_commitments) = 9
        /\ \A i \in 1..9 : Len(result.gate_identity_commitments[i]) = 2
        /\ Len(result.wiring_proofs) = 6
        /\ Len(result.wiring_commits) = 6
        /\ Len(result.wiring_opens) = 6

C1_Witness ==
    /\ Assembled("baseline")
    /\ n = MaxN
    /\ result.returned
    /\ Len(result.wiring_opens) = 6

(* C2: no polynomial is committed more than once in an invocation;
   local_hyperplonk makes exactly the 15 commit calls on a, b, c, I, q1, q2,
   ssigma_a, ssigma_b, ssigma_c, h, num, den, vx0, vx1, v1x, and
   local_hyperplonkpp exactly those 15 and one commit of s. *)
C2_CommitOnce ==
    LET cs == CommitsOf(trace)
        notS(x) == x # "s"
    IN  /\ \A i, j \in DOMAIN cs : i # j => cs[i] # cs[j]
        /\ Assembled("baseline") => cs = UpFront \o WiringSix
        /\ Assembled("plus") =>
              /\ Len(cs) = 16
              /\ Cardinality({i \in DOMAIN cs : cs[i] = "s"}) = 1
              /\ SelectSeq(cs, notS) = UpFront \o WiringSix

C2_Witness ==
    /\ Assembled("plus")
    /\ n = MaxN
    /\ Len(CommitsOf(trace)) = 16
    /\ Len(Select(trace, IsSumcheck)) = 13

(* C3, as claimed: in both variants every open call on a polynomial of a
   component (gate identity, wiring) happens only after all sum-check
   instances of that component, so no sum-check of a component follows an
   opening of the same component. *)
Component(e) ==
    IF e.dst \in {"gate_identity_proofs", "gate_identity_commitments"}
    THEN "gate" ELSE "wiring"

IsLinkSumcheck(e) == IsSumcheck(e) /\ e.a1 = "m" /\ e.a2 = "s"
IsWiringSixSumcheck(e) ==
    IsSumcheck(e) /\ e.dst = "wiring_proofs" /\ ~IsLinkSumcheck(e)
IsWiringOpen(e) == IsOpenEvent(e) /\ Component(e) = "wiring"
IsGateOpen(e) == IsOpenEvent(e) /\ Component(e) = "gate"

Call4(e) == <<e.op, e.a1, e.a2, e.ch>>

C4_PlusExtras ==
    LET usesBig(e) == e.ch # "" /\ e.chlen = n + 2
        big == Select(trace, usesBig)
        sampleBig(e) == e.op = "sample" /\ e.out = n + 2 /\ e.cnt = "n+2"
        sampleS(e) == e.op = "sample" /\ e.dst = "s" /\ e.out = Pow2(n + 2)
        commitS(e) == IsCommit(e) /\ e.a1 = "s"
        openSM(e) == IsOpenEvent(e) /\ e.a1 \in {"s", "m"}
        openM(e) == IsOpenEvent(e) /\ e.a1 = "m"
    IN  /\ Assembled("plus") =>
              /\ [i \in DOMAIN big |-> Call4(big[i])] =
                    << <<"sumcheck", "m", "s", "challengep2">>,
                       <<"open", "s", "", "challengep2">>,
                       <<"open", "m", "", "challengep2">>,
                       <<"open", "m", "", "challengep2_2">> >>
              /\ Select(trace, openSM) = SubSeq(big, 2, 4)
              /\ [i \in 1..2 |-> Select(trace, sampleBig)[i].dst] =
                    <<"challengep2", "challengep2_2">>
              /\ Len(Select(trace, sampleBig)) = 2
              /\ Len(Select(trace, sampleS)) = 1
              /\ Len(Select(trace, commitS)) = 1
              /\ Select(trace, commitS)[1].lens = <<Pow2(n + 2)>>
              /\ \E i, j, k \in DOMAIN trace :
                    /\ i < j /\ j < k
                    /\ sampleS(trace[i]) /\ commitS(trace[j]) /\ IsLinkSumcheck(trace[k])
                    /\ trace[k].lens = <<Pow2(n + 2), Pow2(n + 2)>>
              /\ Cardinality({e.ch : e \in Range(Select(trace, openM))}) = 2
              /\ Len(Select(trace, openM)) = 2
        /\ Assembled("baseline") =>
              /\ big = <<>>
              /\ Select(trace, sampleBig) = <<>>
              /\ Select(trace, sampleS) = <<>>
              /\ Select(trace, commitS) = <<>>
              /\ Select(trace, openSM) = <<>>

C4_Witness ==
    /\ Assembled("plus")
    /\ n = 1
    /\ \E i \in DOMAIN trace :
          /\ IsOpenEvent(trace[i])
          /\ trace[i].a1 = "m"
          /\ trace[i].ch = "challengep2_2"
          /\ trace[i].chlen = 3

(* C5: for the same n, the statements executed by local_hyperplonkpp, once
   the plus-specific ones are deleted (sampling the two (n+2)-length
   challenges and s, the commit of s, the sum-check (M, s), the openings of
   s and M), are the statements executed by local_hyperplonk, with the same
   operands and challenges; the two bundles differ by the extra entries
   only. *)
PlusSpecific(e) ==
    \/ e.op = "sample" /\ e.dst \in {"challengep2", "challengep2_2"}
    \/ e.op = "sample" /\ e.dst = "s" /\ e.cnt = "gate_count*4"
    \/ IsCommit(e) /\ e.a1 = "s"
    \/ IsLinkSumcheck(e)
    \/ IsOpenEvent(e) /\ e.a1 \in {"s", "m"}

Shared(e) == ~PlusSpecific(e)

C5_SameButExtras ==
    LET b == completed["baseline"]
        p == completed["plus"]
    IN  (b.n # 0 /\ b.n = p.n) =>
            /\ Select(p.trace, Shared) = b.trace
            /\ Len(Select(p.trace, PlusSpecific)) = 8
            /\ p.bundle.gate_identity_proofs = b.bundle.gate_identity_proofs
            /\ p.bundle.gate_identity_commitments = b.bundle.gate_identity_commitments
            /\ p.bundle.wiring_proofs =
                  <<sumcheck_product("m", "s", "challengep2")>> \o b.bundle.wiring_proofs
            /\ p.bundle.wiring_commits = <<commit("s")>> \o b.bundle.wiring_commits
            /\ p.bundle.wiring_opens =
                  <<open("s", "challengep2"), open("m", "challengep2"),
                    open("m", "challengep2_2")>> \o b.bundle.wiring_opens

C5_Witness ==
    /\ completed["baseline"].n = MaxN
    /\ completed["plus"].n = MaxN
    /\ Len(completed["plus"].trace) = Len(completed["baseline"].trace) + 8
    /\ Len(completed["baseline"].trace) > 60

(* C6: in both variants the gate-identity proof list holds exactly six
   sum-check proofs, all at the one n-length challenge, for the operand
   pairs (eq,q1), (q1,a+b), (eq,q2), (a,b), (q2,a), (eq,I-c) in this order,
   where (a+b)[i] = a[i]+b[i] and (I-c)[i] = I[i]-c[i] in the field. *)
GateSix ==
    << <<"eq", "q1">>, <<"q1", "sum_ab">>, <<"eq", "q2">>,
       <<"a_evals", "b_evals">>, <<"q2", "a_evals">>, <<"eq", "sum_ci">> >>

IsGateSumcheck(e) == IsSumcheck(e) /\ e.dst = "gate_identity_proofs"

C6_GateProofs ==
    LET gs == Select(trace, IsGateSumcheck)
        proofs == IF status = "Assembled" THEN result.gate_identity_proofs
                  ELSE gate_identity_proofs
    IN  /\ Len(gs) <= 6
        /\ \A i \in DOMAIN gs :
              /\ <<gs[i].a1, gs[i].a2>> = GateSix[i]
              /\ gs[i].ch = "challenge"
              /\ gs[i].chlen = n
              /\ gs[i].lens = <<Pow2(n), Pow2(n)>>
        /\ status \in {"Running", "Assembled"} =>
              proofs = [i \in DOMAIN gs |->
                            sumcheck_product(GateSix[i][1], GateSix[i][2], "challenge")]
        /\ status = "Assembled" => Len(proofs) = 6
        /\ tables["sum_ab"] # <<>> =>
              /\ Len(tables["sum_ab"]) = Pow2(n)
              /\ \A i \in 1..Pow2(n) :
                    tables["sum_ab"][i] = (tables["a_evals"][i] + tables["b_evals"][i]) % P
        /\ tables["sum_ci"] # <<>> =>
              /\ Len(tables["sum_ci"]) = Pow2(n)
              /\ \A i \in 1..Pow2(n) :
                    /\ tables["sum_ci"][i] \in 0..(P - 1)
                    /\ (tables["sum_ci"][i] + tables["c_evals"][i]) % P = tables["input"][i]

C6_Witness ==
    /\ status = "Running"
    /\ variant = "plus"
    /\ n = MaxN
    /\ Len(gate_identity_proofs) = 6
    /\ \E i \in 1..Pow2(n) :
          /\ tables["c_evals"][i] # 0
          /\ tables["sum_ci"][i] # 0
          /\ tables["sum_ci"][i] # tables["input"][i]
          /\ tables["sum_ab"][i] # tables["a_evals"][i]

(* C7: in both variants the wiring argument makes, at the n-length
   challenge, exactly the six sum-check calls (eq,v1x), (eq,vx0), (vx0,vx1),
   (eq,den), (eq,num), (h,num), in this order, where (vx0, vx1, v1x) is what
   acc_product returned on h; in local_hyperplonkpp the only other wiring
   proof is the single (M, s) one. *)
WireSixPairs ==
    << <<"eq", "v1x">>, <<"eq", "vx0">>, <<"vx0", "vx1">>,
       <<"eq", "den">>, <<"eq", "num">>, <<"h", "num">> >>

IsAcc(e) == e.op = "acc"
IsWiringSumcheck(e) == IsSumcheck(e) /\ e.dst = "wiring_proofs"

C7_WiringProofs ==
    LET six == Select(trace, IsWiringSixSumcheck)
        link == Select(trace, IsLinkSumcheck)
        accs == Select(trace, IsAcc)
        first == IF variant = "plus"
                 THEN <<sumcheck_product("m", "s", "challengep2")>> ELSE <<>>
    IN  /\ Len(six) <= 6
        /\ \A i \in DOMAIN six :
              /\ <<six[i].a1, six[i].a2>> = WireSixPairs[i]
              /\ six[i].ch = "challenge"
              /\ six[i].chlen = n
        /\ six # <<>> => Len(accs) = 1 /\ accs[1].ok
        /\ \A i \in DOMAIN accs : accs[i].a1 = "h"
        /\ tables["vx0"] # <<>> =>
              /\ tables["vx0"] = acc_product(tables["h"]).vx0
              /\ tables["vx1"] = acc_product(tables["h"]).vx1
              /\ tables["v1x"] = acc_product(tables["h"]).v1x
        /\ Len(Select(trace, IsWiringSumcheck)) = Len(six) + Len(link)
        /\ Len(link) <= (IF variant = "plus" THEN 1 ELSE 0)
        /\ status = "Assembled" =>
              /\ Len(six) = 6
              /\ Len(link) = Len(first)
              /\ result.wiring_proofs =
                    first \o [i \in 1..6 |->
                        sumcheck_product(WireSixPairs[i][1], WireSixPairs[i][2], "challenge")]

C7_Witness ==
    /\ Assembled("plus")
    /\ n = MaxN
    /\ Len(result.wiring_proofs) = 7
    /\ Len(Select(trace, IsAcc)) = 1

(* C8, as claimed: in both variants the wiring commitment list and the wiring
   opening list of the bundle are, in order, the commitments and the openings
   of h, num, den, vx0, vx1, v1x, so that the i-th opening opens the
   polynomial of the i-th commitment. *)
C8_ListsAligned ==
    status = "Assembled" =>
        /\ result.wiring_commits = [i \in 1..6 |-> commit(WiringSix[i])]
        /\ result.wiring_opens = [i \in 1..6 |-> open(WiringSix[i], "challenge")]
        /\ \A i \in DOMAIN result.wiring_opens :
              result.wiring_opens[i].open = result.wiring_commits[i].com

(* C8, amended: in local_hyperplonk the two lists are the commitments and the
   openings of h, num, den, vx0, vx1, v1x, in order and index-aligned.  In
   local_hyperplonkpp the commitment list is the commitment of s followed by
   those six and the opening list is the openings of s, M, M (at the two
   (n+2)-length challenges) followed by those six: the last six entries of
   the two lists are aligned, the lists (of 7 and 9 entries) are not. *)
C8_LastSixAligned ==
    status = "Assembled" =>
        LET cs == result.wiring_commits
            os == result.wiring_opens
            kc == Len(cs) - 6
            ko == Len(os) - 6
        IN  /\ kc = (IF variant = "plus" THEN 1 ELSE 0)
            /\ ko = (IF variant = "plus" THEN 3 ELSE 0)
            /\ \A i \in 1..6 :
                  /\ cs[kc + i] = commit(WiringSix[i])
                  /\ os[ko + i] = open(WiringSix[i], "challenge")
                  /\ os[ko + i].open = cs[kc + i].com
            /\ variant = "plus" =>
                  /\ cs[1] = commit("s")
                  /\ SubSeq(os, 1, 3) =
                        <<open("s", "challengep2"), open("m", "challengep2"),
                          open("m", "challengep2_2")>>
                  /\ os[2].open # cs[2].com

C8_Witness ==
    /\ Assembled("plus")
    /\ n = MaxN
    /\ Len(result.wiring_commits) = 7
    /\ Len(result.wiring_opens) = 9

(* C9, as claimed: every table produced during an invocation (M, ssigma, s,
   a, b, c, I, q1, q2, sid, eq, ssigma_a/b/c, a+b, I-c, num, den, h, vx0,
   vx1, v1x) has length 2^n or 2^(n+2). *)
ClaimedTables ==
    {"m", "ssigma", "s", "a_evals", "b_evals", "c_evals", "input", "q1", "q2",
     "sid", "eq", "ssigma_a_evals", "ssigma_b_evals", "ssigma_c_evals",
     "sum_ab", "sum_ci", "num", "den", "h", "vx0", "vx1", "v1x"}

\* the name s is bound twice: to the parameter vector of the commitment
\* scheme until new_toy takes it, and to the table s of the plus variant
IsTable(t) ==
    /\ t \in ClaimedTables
    /\ tables[t] # <<>>
    /\ t = "s" => arity >= 0

C9_AllTablesFull ==
    \A t \in ClaimedTables :
        IsTable(t) => Len(tables[t]) \in {Pow2(n), Pow2(n + 2)}

(* C9, amended: M, ssigma and s have length 2^(n+2); a, b, c, I, q1, q2,
   sid, eq, ssigma_a/b/c, a+b, I-c, num, den and h have length 2^n; the three
   tables returned by acc_product, vx0, vx1 and v1x, have half the length of
   h, 2^(n-1), which is neither 2^n nor 2^(n+2). *)
C9_TableLengths ==
    \A t \in ClaimedTables :
        IsTable(t) =>
            Len(tables[t]) =
                CASE t \in {"m", "ssigma", "s"} -> Pow2(n + 2)
                  [] t \in {"vx0", "vx1", "v1x"} -> Pow2(n - 1)
                  [] OTHER -> Pow2(n)

C9_Witness ==
    /\ status = "Running"
    /\ variant = "plus"
    /\ n = MaxN
    /\ \A t \in ClaimedTables : IsTable(t)
    /\ Len(tables["v1x"]) = Pow2(n - 1)

(* C10: a failing step (a panicking fix, commit, open, sum-check, accumulate
   or sampling call, or a division by a zero den[i]) ends the invocation in
   Aborted: it is the last step made, nothing is retried and nothing, whole
   or partial, is returned; an invocation without a failing step ends in
   Assembled with the full bundle. *)
C10_FailureAborts ==
    /\ \A i \in DOMAIN trace :
          ~trace[i].ok => (i = Len(trace) /\ status = "Aborted")
    /\ status = "Aborted" =>
          /\ trace # <<>>
          /\ ~trace[Len(trace)].ok
          /\ result = NoBundle
          /\ tables = NoTables
          /\ \A i \in 1..5 : Lists[i] = <<>>
          /\ ~ENABLED Next
    /\ status = "Running" => result = NoBundle
    /\ status = "Assembled" =>
          /\ result.returned
          /\ \A i \in DOMAIN trace : trace[i].ok
          /\ Len(trace) = Len(Body(variant)) - 1
          /\ Len(result.gate_identity_proofs) + Len(result.wiring_proofs)
                = Len(Select(trace, IsSumcheck))
          /\ Len(result.wiring_commits) + Len(result.gate_identity_commitments)
                = Len(Select(trace, IsCommit))
          /\ Len(result.wiring_opens) + Len(result.gate_identity_commitments)
                = Len(Select(trace, IsOpenEvent))

C10_Witness ==
    /\ status = "Aborted"
    /\ trace[Len(trace)].op = "zip_div"
    /\ variant = "plus"
    /\ Len(Select(trace, IsCommit)) = 10

(* C11: in every invocation of either variant the six wire and label tables
   are derived before any commit, the nine commits of a, b, c, I, q1, q2,
   ssigma_a, ssigma_b, ssigma_c precede the first sum-check, every
   gate-identity sum-check precedes every wiring sum-check, and each of h,
   num, den, vx0, vx1, v1x is committed only after it has been computed. *)
Derived ==
    {"a_evals", "b_evals", "c_evals",
     "ssigma_a_evals", "ssigma_b_evals", "ssigma_c_evals"}

IsFix(e) == e.op = "fix"

\* the statement that computes the table t
Computes(e, t) ==
    \/ e.op \in {"prod3", "zip_div"} /\ e.dst = t
    \/ e.op = "acc" /\ t \in {"vx0", "vx1", "v1x"}

Before(i, Test(_)) == {j \in 1..(i - 1) : Test(trace[j])}

C11_PhaseOrder ==
    /\ \A i \in DOMAIN trace :
          /\ IsCommit(trace[i]) =>
                /\ {trace[j].dst : j \in Before(i, IsFix)} = Derived
                /\ \A j \in (i + 1)..Len(trace) : ~IsFix(trace[j])
          /\ IsSumcheck(trace[i]) =>
                Range(UpFront) \subseteq {trace[j].a1 : j \in Before(i, IsCommit)}
          /\ IsWiringSumcheck(trace[i]) =>
                /\ Cardinality(Before(i, IsGateSumcheck)) = 6
                /\ \A j \in (i + 1)..Len(trace) : ~IsGateSumcheck(trace[j])
          /\ (IsCommit(trace[i]) /\ trace[i].a1 \in Range(WiringSix)) =>
                /\ \E j \in 1..(i - 1) : Computes(trace[j], trace[i].a1) /\ trace[j].ok
                /\ trace[i].lens[1] > 0
    /\ status = "Assembled" =>
          /\ Len(Select(trace, IsFix)) = 6
          /\ Len(Select(trace, IsGateSumcheck)) = 6
          /\ Len(Select(trace, IsWiringSixSumcheck)) = 6
          /\ Range(WiringSix) \subseteq Range(CommitsOf(trace))

C11_Witness ==
    /\ Assembled("baseline")
    /\ n = 1
    /\ Len(Select(trace, IsFix)) = 6
    /\ Len(Select(trace, IsWiringSumcheck)) = 6

(* C12: in a completed invocation of either variant each of the 15 committed
   polynomials a, b, c, I, q1, q2, ssigma_a, ssigma_b, ssigma_c, h, num, den,
   vx0, vx1, v1x is opened exactly once, and all these openings use the one
   n-length challenge, sampled once, that every sum-check other than (M, s)
   uses too. *)
C12_OpenedOnceAtChallenge ==
    status = "Assembled" =>
        LET opens == Select(trace, IsOpenEvent)
            sampled(e) == e.op = "sample" /\ e.dst = "challenge"
        IN  /\ \A t \in Range(UpFront) \cup Range(WiringSix) :
                  Cardinality({i \in DOMAIN opens : opens[i].a1 = t}) = 1
            /\ \A i \in DOMAIN opens :
                  opens[i].a1 \in Range(UpFront) \cup Range(WiringSix) =>
                      /\ opens[i].ch = "challenge"
                      /\ opens[i].chlen = n
            /\ \A i \in DOMAIN trace :
                  (IsSumcheck(trace[i]) /\ ~IsLinkSumcheck(trace[i])) =>
                      /\ trace[i].ch = "challenge"
                      /\ trace[i].chlen = n
            /\ Len(Select(trace, sampled)) = 1
            /\ Select(trace, sampled)[1].out = n

C12_Witness ==
    /\ Assembled("baseline")
    /\ n = MaxN
    /\ Cardinality({i \in DOMAIN trace :
            IsOpenEvent(trace[i]) /\ trace[i].ch = "challenge" /\ trace[i].chlen = MaxN}) = 15

(* C13: over the prime field of P elements, for every index i of the 2^n
   gates num[i] = (a[i]+beta*ssigma_a[i]+gamma) * (b[i]+beta*ssigma_b[i]+gamma)
   * (c[i]+beta*ssigma_c[i]+gamma) and den[i] is the same product with sid[i]
   in the place of the three labels; h is produced exactly when every den[i]
   is non-zero, and then h[i]*den[i] = num[i]; when some den[i] is 0 the only
   step the invocation can take is the DivisionByZero failure, which ends it
   without h. *)
Bound(t) == tables[t] # <<>>

\* the product of the three wire terms at index i, computed in the integers
WireProduct(l1, l2, l3, i) ==
    LET b == scalars["beta"]
        g == scalars["gamma"]
    IN  ( (tables["a_evals"][i] + b * tables[l1][i] + g)
        * (tables["b_evals"][i] + b * tables[l2][i] + g)
        * (tables["c_evals"][i] + b * tables[l3][i] + g) ) % P

C13_RationalIdentity ==
    /\ Bound("num") =>
          /\ Len(tables["num"]) = Pow2(n)
          /\ \A i \in 1..Pow2(n) :
                tables["num"][i]
                  = WireProduct("ssigma_a_evals", "ssigma_b_evals", "ssigma_c_evals", i)
    /\ Bound("den") =>
          /\ Len(tables["den"]) = Pow2(n)
          /\ \A i \in 1..Pow2(n) :
                tables["den"][i] = WireProduct("sid", "sid", "sid", i)
    /\ Bound("h") =>
          /\ Len(tables["h"]) = Pow2(n)
          /\ \A i \in 1..Pow2(n) :
                /\ tables["den"][i] # 0
                /\ (tables["h"][i] * tables["den"][i]) % P = tables["num"][i]
    /\ (status = "Running" /\ Ins.op = "zip_div") =>
          IF \E i \in 1..Pow2(n) : tables["den"][i] = 0
          THEN /\ ENABLED DivisionByZero
               /\ ~ENABLED DoZipDiv
               /\ ~ENABLED CollaboratorPanic
          ELSE /\ ENABLED DoZipDiv
               /\ ~ENABLED DivisionByZero
               /\ ~ENABLED CollaboratorPanic
    /\ (trace # <<>> /\ trace[Len(trace)].op = "zip_div") =>
          IF trace[Len(trace)].ok
          THEN status = "Running" /\ Bound("h")
          ELSE status = "Aborted" /\ ~Bound("h") /\ result = NoBundle

\* h has been produced from a den without zero, with entries other than 0, 1
C13_Witness ==
    /\ status = "Running"
    /\ Bound("h")
    /\ \A i \in 1..Pow2(n) : tables["den"][i] # 0
    /\ \E i \in 1..Pow2(n) : tables["h"][i] \notin {0, 1} /\ tables["den"][i] # 1
    /\ scalars["beta"] # 0
    /\ scalars["gamma"] # 0

(* C14: for the witness table M and the permutation table ssigma of length
   4 * 2^n, in both variants a[i] = M[i], b[i] = M[2^n + i],
   c[i] = M[2 * 2^n + i] and ssigma_a, ssigma_b, ssigma_c are the same three
   quarters of ssigma; no fix_variable call uses the pattern (1,1), and the
   six derived tables are the same whatever the quarter (1,1) holds. *)
Quarter(t, k) == SubSeq(t, k * Pow2(n) + 1, (k + 1) * Pow2(n))

\* the table t with every entry of its quarter (1,1) replaced by v
Overwrite11(t, v) == [i \in 1..Len(t) |-> IF i > 3 * Pow2(n) THEN v ELSE t[i]]

SlicesOf(src, x, y, z) ==
    /\ (Bound(src) /\ Bound(x)) => tables[x] = Quarter(tables[src], 0)
    /\ (Bound(src) /\ Bound(y)) => tables[y] = Quarter(tables[src], 1)
    /\ (Bound(src) /\ Bound(z)) => tables[z] = Quarter(tables[src], 2)

C14_FixIndexing ==
    /\ SlicesOf("m", "a_evals", "b_evals", "c_evals")
    /\ SlicesOf("ssigma", "ssigma_a_evals", "ssigma_b_evals", "ssigma_c_evals")
    /\ \A i \in DOMAIN trace :
          IsFix(trace[i]) =>
              /\ trace[i].pt \in {<<0, 0>>, <<0, 1>>, <<1, 0>>}
              /\ trace[i].a1 \in {"m", "ssigma"}
              /\ trace[i].lens[1] = 4 * Pow2(n)
              /\ trace[i].ok => trace[i].out = Pow2(n)
    /\ (status = "Running" /\ trace # <<>> /\ IsFix(trace[Len(trace)])) =>
          LET e == trace[Len(trace)]
          IN  \A v \in 0..(P - 1) :
                  fix_variable(Overwrite11(tables[e.a1], v), e.pt) = tables[e.dst]

\* all six tables are derived, and the four quarters of M and of ssigma differ
C14_Witness ==
    /\ status = "Running"
    /\ n = MaxN
    /\ \A t \in Derived : Bound(t)
    /\ Bound("m")
    /\ Bound("ssigma")
    /\ \A j, k \in 0..3 :
          j # k => /\ Quarter(tables["m"], j) # Quarter(tables["m"], k)
                   /\ Quarter(tables["ssigma"], j) # Quarter(tables["ssigma"], k)

(* C15: every sum-check call of either variant is made on two tables of
   equal length, and that length is 2^(length of the challenge passed to
   it).  The calls (eq, v1x), (eq, vx0) and (vx0, vx1) do not meet it: the
   accumulator's tables have 2^(n-1) entries and the challenge has n. *)
C15_SumcheckPrecondition ==
    \A i \in DOMAIN trace :
        IsSumcheck(trace[i]) =>
            /\ trace[i].lens[1] = trace[i].lens[2]
            /\ trace[i].lens[1] = Pow2(trace[i].chlen)

(* C16: every open call on a table comes after a commit call on the same
   table in the same invocation.  The plus variant opens M twice and never
   commits it. *)
C16_OpenAfterCommit ==
    \A i \in DOMAIN trace :
        IsOpenEvent(trace[i]) =>
            \E j \in 1..(i - 1) :
                /\ IsCommit(trace[j])
                /\ trace[j].a1 = trace[i].a1
                /\ trace[j].ok

(* C17: every open call uses a point no longer than the parameter vector
   the commitment scheme of the invocation was created from.  The plus
   variant creates the scheme from n parameters and opens s and M at points
   of n + 2 elements. *)
IsNewToy(e) == e.op = "new_toy"

C17_OpenWithinArity ==
    \A i \in DOMAIN trace :
        IsOpenEvent(trace[i]) =>
            \E j \in 1..(i - 1) :
                /\ IsNewToy(trace[j])
                /\ trace[j].lens[1] = n
                /\ trace[i].chlen <= trace[j].lens[1]

=============================================================================
